---- MODULE Spec2Model ----
(***************************************************************************)
(* A model of the rdb snapshot parser (package rdb): the stream driver     *)
(* (Parser.Parse), its skip-strategy state machine, and the decode         *)
(* pipeline of filter workers fed through a bounded channel.               *)
(*                                                                         *)
(* The snapshot is read one frame at a time; the frame the driver meets    *)
(* next is drawn when it is read, so every file of at most MaxTokens       *)
(* frames (followed by EOF or by the end of the data) is covered.          *)
(***************************************************************************)
EXTENDS Integers, Sequences, FiniteSets, Bags, TLC

(***************************************************************************)
(* Bounds of the model.                                                    *)
(***************************************************************************)
\* Frames the driver may read before the file has to end (EOF or truncation).
MaxTokens == 3
\* Capacity of the work channel in the model (filterBufferSize, 512 in the
\* source, scaled down so that a full channel is reachable).
QueueCap == 1
\* Largest runtime.NumCPU() explored.
MaxCPU == 3

(***************************************************************************)
(* Program constants.                                                      *)
(***************************************************************************)
SkipMeta == 1
SkipExpiry == 2
SkipValue == 4
SkipAll == 8

EncodingString == 0
EncodingList == 1
EncodingSet == 2
EncodingSortedSet == 3
EncodingHash == 4
EncodingSortedSet2 == 5
EncodingZipmap == 9
EncodingZiplist == 10
EncodingIntset == 11
EncodingSortedSetZip == 12
EncodingHashZip == 13
EncodingQuicklist == 14

\* Encoding2Type: the redis type of an encoding byte.
Encoding2Type(encoding) ==
    CASE encoding = EncodingString -> "string"
      [] encoding \in {EncodingList, EncodingZiplist, EncodingQuicklist} -> "list"
      [] encoding \in {EncodingSet, EncodingIntset} -> "set"
      [] encoding \in {EncodingSortedSet, EncodingSortedSet2, EncodingSortedSetZip} -> "sortedset"
      [] encoding \in {EncodingHash, EncodingZipmap, EncodingHashZip} -> "hash"
      [] OTHER -> "unknown"

\* The encodings the value switch of Parser.Parse has a case for.
SupportedEncodings ==
    {EncodingString, EncodingList, EncodingSet, EncodingSortedSet, EncodingHash,
     EncodingSortedSet2, EncodingZipmap, EncodingZiplist, EncodingIntset,
     EncodingSortedSetZip, EncodingHashZip, EncodingQuicklist}

(***************************************************************************)
(* Input domains.                                                          *)
(***************************************************************************)
\* Strategies given to WithStrategy.
StrategyChoices == {0, SkipAll}
\* Strategies a callback passes to Skip; NoSkip: the callback does not call Skip.
NoSkip == -1
SkipArgs == {NoSkip, 0, SkipValue, SkipAll}
\* The filters explored, each given by the arguments its Database, Type and Key
\* callbacks may pass to Skip: a filter that never calls Skip, and one that may
\* pass any of SkipArgs.
FilterChoices == {{NoSkip}, SkipArgs}
\* The combinations of options explored: a filter that calls Skip is run in
\* ordered mode (EnableSync), where one worker serves it.
Explored(hasFilter, isSync, g) ==
    /\ ~hasFilter => g = {NoSkip}
    /\ g # {NoSkip} => isSync
\* Encoding bytes of the records in the file; 6 is not a supported encoding.
InputEncodings == {EncodingString, EncodingList, EncodingQuicklist, 6}
\* Keys of the records: a plain string of the given length, which looks like a
\* decimal integer (int) or does not.
KeyChoices == {[len |-> 10, int |-> FALSE]}
\* Length of a record's value string (uncompressed).
PayloadLen == 5
\* Payload of a record's value string: stored plain, or LZF-compressed with a
\* stream readLZF rejects.
PayloadChoices == {"plain", "badlzf"}
\* The first bytes of the file, one character each: a good header, fewer than
\* nine bytes, a wrong magic, a version that is no number, a version outside
\* 1..8, a version with a sign.
HeaderChoices ==
    { << "R", "E", "D", "I", "S", "0", "0", "0", "8" >>,
      << "R", "E", "D", "I", "S", "0", "0" >>,
      << "R", "E", "D", "I", "X", "0", "0", "0", "8" >>,
      << "R", "E", "D", "I", "S", "0", "0", "a", "8" >>,
      << "R", "E", "D", "I", "S", "0", "0", "0", "9" >>,
      << "R", "E", "D", "I", "S", "+", "0", "0", "8" >> }
\* Headers the version gate is applied to on its own: either magic, every
\* version over VersionBytes, cut after any number of bytes.
Magics == { << "R", "E", "D", "I", "S" >>, << "R", "E", "D", "I", "X" >> }
VersionBytes == {"0", "1", "8", "9", "+", "-", "a"}
Headers == {SubSeq(m \o v, 1, n) : m \in Magics, v \in [1..4 -> VersionBytes], n \in 0..9}
\* The value string of an AUX frame: plain, or encoded as a 32-bit integer.
AuxChoices == {"plain", "int32"}
\* Database numbers of SELECT_DB frames.
DBNums == {1}
\* Inputs the key stage is applied to on its own: keys by length and look,
\* the four bytes of an EXPIRE_S frame (none: << >>), the running strategy.
KeyInputs == [len : {1, 8, 32, 33, 64}, int : BOOLEAN]
ByteChoices == {0, 1, 127, 128, 255}
\* The first byte of a length (6 bits, 14 bits, 0x80, an invalid 10 prefix,
\* the special format) and the four bytes after it.
FirstBytes == {0, 63, 64, 127, 128, 130, 192, 195}
LengthInputs == [first : FirstBytes, rest : [1..4 -> ByteChoices], withEncoding : BOOLEAN]
ExpiryFrames == {<< >>} \cup [1..4 -> ByteChoices]
\* Entries of a ziplist, without the byte that holds the previous entry's
\* length: the flag byte first, then the entry's bytes. Strings of 0, 1 and 5
\* bytes, 16-, 32-, 24- and 8-bit integers, 4-bit immediate integers.
EntryChoices ==
    {[first |-> n, data |-> [i \in 1..n |-> 0]] : n \in {0, 1, 5}}
    \cup {[first |-> 192, data |-> d] : d \in [1..2 -> ByteChoices]}
    \cup {[first |-> 208, data |-> d] : d \in [1..4 -> {0, 128}]}
    \cup {[first |-> 240, data |-> d] : d \in [1..3 -> {0, 128}]}
    \cup {[first |-> 254, data |-> << b >>] : b \in ByteChoices}
    \cup {[first |-> f, data |-> << >>] : f \in {241, 253}}
\* Most entries of a ziplist.
MaxEntries == 30
\* Most bytes of a MemReader's data, largest argument of its calls, and the
\* cursor beyond which no further call is made.
MaxData == 3
MaxArg == 3
MaxCursor == 7
MaxFrames == 3
MaxLzf == 4
\* Sizes asked of jemalloc: within the size classes of the model, and
\* negative ones, which as unsigned values exceed the largest entry.
JemallocSizes == (-3..130) \cup {4095, 4096}
MaxPairs == 2
\* The pairs of a zipmap: the lengths of the key and of the value, the free
\* bytes after the value.
ZipmapPairs == [klen : {0, 1}, vlen : {1, 2}, free : {0, 1}]
ZipmapInputs == UNION {[1..n -> ZipmapPairs] : n \in 0..MaxPairs}
\* Compressed inputs: literal runs of 1 and 2 bytes (0, 1), back-references
\* of length 3 (32, 65) and with an extended length (224); the declared
\* uncompressed length.
LzfBytes == {0, 1, 32, 65, 224}
LzfInputs == UNION {[1..n -> LzfBytes] : n \in 0..MaxLzf}
\* Expiry values of EXPIRE frames.
ExpiryChoices == {1500}

(***************************************************************************)
(* Errors (nil is the absence of one). A worker's error names the record   *)
(* it failed on, so that errors of different workers are told apart.       *)
(***************************************************************************)
nil == [kind |-> "nil", rec |-> 0]
ErrUnexpectedEOF == [kind |-> "ErrUnexpectedEOF", rec |-> 0]
ErrInvalidZipmapEntry == [kind |-> "ErrInvalidZipmapEntry", rec |-> 0]
ErrInvalidLengthEncoding == [kind |-> "ErrInvalidLengthEncoding", rec |-> 0]
ErrInvalidRDB == [kind |-> "ErrInvalidRDB", rec |-> 0]
ErrUnsupportedRDB == [kind |-> "ErrUnsupportedRDB", rec |-> 0]
ErrSyntax == [kind |-> "strconv.ErrSyntax", rec |-> 0]
ErrInvalidCompressedData(r) == [kind |-> "ErrInvalidCompressedData", rec |-> r]

(***************************************************************************)
(* Memory-cost model (type overhead).                                      *)
(***************************************************************************)
\* The size classes of allocSpec that fit the model's integers.
allocSpec ==
    << 8, 16, 24, 32, 40, 48, 56, 64, 80, 96, 112, 128, 160, 192, 224, 256, 320,
       384, 448, 512, 640, 768, 896, 1024, 1280, 1536, 1792, 2048, 2560, 3072,
       3584, 4096 >>

\* sort.Search: the first (1-based) index whose entry is >= size, or
\* Len(allocSpec) + 1 when there is none.
\* The comparison is allocSpec[i] >= uint64(size): a negative size is, as an
\* unsigned value, larger than every entry.
Search(size) ==
    LET hits == {i \in 1..Len(allocSpec) : size >= 0 /\ allocSpec[i] >= size}
    IN  IF hits = {} THEN Len(allocSpec) + 1
        ELSE CHOOSE i \in hits : \A j \in hits : i <= j

\* overhead.jemalloc: the entry, uint64(size) itself (self), or the panic of
\* allocSpec[len(allocSpec)].
jemallocCall(size) ==
    LET i == Search(size)
    IN  IF i > Len(allocSpec) + 1 THEN [res |-> "ok", self |-> TRUE, v |-> 0]
        ELSE IF i = Len(allocSpec) + 1 THEN [res |-> "panic", self |-> FALSE, v |-> 0]
        ELSE [res |-> "ok", self |-> FALSE, v |-> allocSpec[i]]

\* overhead.jemalloc where it returns.
jemalloc(size) == jemallocCall(size).v

alloc(l) ==
    IF l < 32 THEN jemalloc(l + 2)
    ELSE IF l < 256 THEN jemalloc(l + 2 + 2)
    ELSE IF l < 65536 THEN jemalloc(l + 2 + 4)
    ELSE jemalloc(l + 2 + 8)

arch == 8
hashEntry == 2 * arch + 8
root == arch + 8
expiry(e) == IF e < 0 THEN 0 ELSE hashEntry + 8
top(e) == hashEntry + root + expiry(e)

(***************************************************************************)
(* Strategy bit masks.                                                     *)
(***************************************************************************)
\* running & flag != 0, for a single-bit flag.
Has(s, flag) == (s \div flag) % 2 = 1

(***************************************************************************)
(* State.                                                                  *)
(***************************************************************************)
VARIABLES
    pc,              \* where the caller of Parse (the producer) is
    ret,             \* the value Parse returned, once pc = "done"
    filter,          \* p.filter != nil
    skips,           \* the arguments the callbacks of p.filter pass to Skip
    sync,            \* p.sync != nil (EnableSync)
    async,           \* p.async != nil
    numCPU,          \* what runtime.NumCPU() returned; 0 while it was not called
    strategy,        \* p.strategy: [running, global]
    defaultStrategy, \* the local defaultStrategy of Parser.Parse
    state,           \* p.state: [skip, compressed, memory]
    sizeint,         \* p.sizeint
    exp,             \* the local exp of Parser.Parse
    expTok,          \* the expiry frame read last, while no other frame has followed it
    currentDB,       \* currentDB.Num
    currentType,     \* currentType.Encoding: the byte b of the record being read
    currentKey,      \* currentKey; rec is the position in the file of the record's frame
    rt,              \* the work item filterRedisType is sending
    held,            \* the error filterRedisType took from p.err and is posting back
    ch,              \* the work channel (p.sync or p.async): the items buffered
    closed,          \* the work channel was closed
    err,             \* p.err, a channel of capacity 1: nil when empty
    wg,              \* the WaitGroup counter
    wpc,             \* where each filterWorker is
    witem,           \* the item each worker received
    wsds,            \* each worker's sds.Value
    wlist,           \* each worker's list.Values
    osds,            \* sds.Value of a lone worker that handled the items sent so far
    olist,           \* list.Values of that lone worker
    lastcall,        \* the last Database/Type/Key callback invoked
    keyed,           \* the records whose Key callback was invoked and returned false
    wcb,             \* the value callback each worker is in
    lastRec,         \* the record of the value callback invoked last
    want,            \* the records read so far that are due a value callback (those
                     \* of a supported encoding read with a filter and without
                     \* SkipAll), as pairs <<record, encoding>>
    got,             \* the value callbacks invoked so far, a bag of <<record, kind>>
    firstErr,        \* the first error a worker posted with p.close
    dbArg,           \* what the Database callback of the current database passed to Skip
    recArg,          \* the strategy the callbacks of the record being read last passed to Skip
    aborted,         \* a Database/Type/Key callback returned true
    how,             \* the return statement Parse left by
    closes,          \* calls of Close on the Reader, which implements io.Closer
    tokens,          \* frames read so far
    eval,            \* a function of the package applied on its own: name, input, output
    reader,          \* a MemReader used on its own: its data's length, its cursor, the last call
    stream,          \* two parses of one file side by side: the bytes each has consumed
    pair             \* a MemReader and a BufferReader over one file, given the same calls

vars == << pc, ret, filter, skips, sync, async, numCPU, strategy, defaultStrategy, state, sizeint,
           exp, expTok, currentDB, currentType, currentKey, rt, held, ch, closed, err, wg,
           wpc, witem, wsds, wlist, osds, olist, lastcall, keyed, wcb, lastRec,
           want, got,
           firstErr,
           dbArg, recArg, aborted, how, closes, tokens, eval, reader, stream, pair >>

funcVars == << eval, reader, stream, pair >>
optionVars == << filter, skips, sync, async, numCPU, defaultStrategy >>
parserVars == << strategy, state, sizeint >>
localVars == << exp, expTok, currentDB, tokens >>
recVars == << currentType, currentKey >>
sendVars == << rt, held, osds, olist, want >>
callVars == << lastcall, keyed, dbArg, recArg, aborted >>
retVars == << ret, how, closes >>
chanVars == << ch, closed, err, wg >>
workerVars == << wpc, witem, wsds, wlist, wcb, lastRec, got, firstErr >>
producerVars == << pc, optionVars, parserVars, localVars, recVars, sendVars, callVars,
                   retVars >>

\* The worker goroutines Parse can start: at most max(2, MaxCPU) - 1.
Workers == 1..(IF MaxCPU < 2 THEN 1 ELSE MaxCPU - 1)

NoKey == [Key |-> 0, DB |-> 0, Expiry |-> -1, Encoding |-> 0, memory |-> 0, rec |-> 0]
NoValue == [c |-> FALSE, l |-> 0, m |-> 0, b |-> 0, bad |-> FALSE]
NoItem == [key |-> NoKey, values |-> << >>, expect |-> << >>]
NoCall == [cb |-> "none", n |-> 0]
NoEval == [fn |-> "none"]
NoReader == [made |-> FALSE, n |-> 0, i |-> 0,
             last |-> [op |-> "none", arg |-> 0, out |-> "none", before |-> 0]]
NoExp == [on |-> FALSE, v |-> 0, skipped |-> FALSE]
NoCallback == [cb |-> "none", key |-> NoKey, value |-> << >>, expect |-> << >>,
               late |-> FALSE, prev |-> 0, skipped |-> FALSE]
NoStream == [n |-> 0, a |-> 0, b |-> 0, eof |-> FALSE, ra |-> 0, rb |-> 0,
             last |-> [frame |-> "none", lzf |-> FALSE]]
NoPair == [mem |-> NoReader, buf |-> NoReader]
zeroState == [skip |-> FALSE, compressed |-> FALSE, memory |-> 0]

Init ==
    /\ pc = "start"
    /\ ret = nil
    /\ filter = FALSE
    /\ skips = {NoSkip}
    /\ sync = FALSE
    /\ async = FALSE
    /\ numCPU = 0
    /\ strategy = [running |-> 0, global |-> 0]
    /\ defaultStrategy = 0
    /\ state = zeroState
    /\ sizeint = 8
    /\ exp = -1
    /\ expTok = NoExp
    /\ currentDB = 0
    /\ currentType = 0
    /\ currentKey = NoKey
    /\ rt = NoItem
    /\ held = nil
    /\ ch = << >>
    /\ closed = FALSE
    /\ err = nil
    /\ wg = 0
    /\ wpc = [w \in Workers |-> "none"]
    /\ witem = [w \in Workers |-> NoItem]
    /\ wsds = [w \in Workers |-> 0]
    /\ wlist = [w \in Workers |-> << >>]
    /\ osds = 0
    /\ olist = << >>
    /\ lastcall = NoCall
    /\ keyed = {}
    /\ wcb = [w \in Workers |-> NoCallback]
    /\ lastRec = 0
    /\ want = {}
    /\ got = EmptyBag
    /\ firstErr = nil
    /\ dbArg = NoSkip
    /\ recArg = NoSkip
    /\ aborted = FALSE
    /\ how = "running"
    /\ closes = 0
    /\ tokens = 0
    /\ eval = NoEval
    /\ reader = NoReader
    /\ stream = NoStream
    /\ pair = NoPair

(***************************************************************************)
(* Helpers of the parser.                                                  *)
(***************************************************************************)
\* skipStage with the test of the strategy bits inverted (== 0 for != 0).
skipStageInverted(running, strategies) == ~(\E f \in strategies : Has(running, f))

\* skipStage(strategies...): the new p.state.skip (also its result).
skipStage(running, strategies) == \E f \in strategies : Has(running, f)

\* setStrategy(strategy)
setStrategy(s) == [running |-> s, global |-> s]

\* Key.Skip / Type.Skip adding the flags of strategy to the running ones.
recordSkipOr(st, a) ==
    IF a = NoSkip THEN st
    ELSE [st EXCEPT !.running =
            IF Has(st.running, SkipAll) \/ Has(a, SkipAll) THEN SkipAll
            ELSE IF Has(st.running, SkipValue) \/ Has(a, SkipValue) THEN SkipValue
            ELSE 0]

\* Key.Skip / Type.Skip: p.strategy.running = strategy (a == NoSkip: not called).
recordSkip(st, a) == IF a = NoSkip THEN st ELSE [st EXCEPT !.running = a]

\* little32: four bytes, least significant first, as a signed 32-bit integer.
little32(b) ==
    LET low == b[1] + 256 * b[2] + 65536 * b[3] + 16777216 * (b[4] % 128)
    IN  IF b[4] >= 128 THEN (low - 2147483647) - 1 ELSE low

\* The expiry frames: exp keeps its value when the frame is skipped.
readExpiry(running, old, e) ==
    IF skipStage(running, {SkipExpiry, SkipAll}) THEN old ELSE e

\* DB.Skip assigning the running strategy only, as Key.Skip and Type.Skip do.
dbSkipRunningOnly(st, a) == IF a = NoSkip THEN st ELSE [st EXCEPT !.running = a]

\* DB.Skip: p.setStrategy(strategy) (a == NoSkip: not called).
dbSkip(st, a) == IF a = NoSkip THEN st ELSE setStrategy(a)

\* clearstate without the line that resets p.state.skip.
clearstateKeepsSkip(p) ==
    [state |-> [skip |-> p.state.skip, compressed |-> FALSE, memory |-> 0],
     strategy |-> [p.strategy EXCEPT !.running = p.strategy.global],
     sizeint |-> 8]

\* clearstate without the line that restores the running strategy.
clearstateKeepsRunning(p) ==
    [state |-> [skip |-> FALSE, compressed |-> FALSE, memory |-> 0],
     strategy |-> p.strategy,
     sizeint |-> 8]

\* clearstate, on [state, strategy, sizeint].
clearstate(p) ==
    [state |-> [skip |-> FALSE, compressed |-> FALSE, memory |-> 0],
     strategy |-> [p.strategy EXCEPT !.running = p.strategy.global],
     sizeint |-> 8]

\* The end of a loop iteration: clearstate on the parser fields as they are
\* after the iteration's assignments (st: p.strategy, s: p.state, si: p.sizeint).
\* currentType and the fields of currentKey other than DB are dead here (the
\* next record assigns each before reading it), so they are not kept.
EndIteration(st, s, si) ==
    LET c == clearstate([state |-> s, strategy |-> st, sizeint |-> si])
    IN  /\ state' = c.state
        /\ strategy' = c.strategy
        /\ sizeint' = c.sizeint
        /\ currentType' = 0
        /\ currentKey' = [NoKey EXCEPT !.DB = currentKey.DB]
        /\ pc' = "head"

\* p.close(err): a send on p.err that is dropped when the slot is taken.
close(slot, e) == IF slot = nil THEN e ELSE slot

\* The worker count with the loop of Parse starting at 0: max(2, cpu) workers.
workerCountFromZero(hasFilter, isSync, cpu) ==
    IF ~hasFilter THEN 0
    ELSE LET w0 == IF isSync THEN 1 ELSE cpu
         IN  IF w0 = 1 THEN w0 + 1 ELSE w0

\* The worker count with EnableSync not limiting the workers to one.
workerCountIgnoringSync(hasFilter, isSync, cpu) ==
    IF ~hasFilter THEN 0
    ELSE IF cpu = 1 THEN 1 ELSE cpu - 1

\* Parse starting no filterWorker at all.
workerCountNone(hasFilter, isSync, cpu) == 0

\* The worker count without the test `p.filter != nil`.
workerCountWithoutFilterTest(hasFilter, isSync, cpu) ==
    LET w0 == IF isSync THEN 1 ELSE cpu
        w1 == IF w0 = 1 THEN w0 + 1 ELSE w0
    IN  w1 - 1

\* The number of filterWorker goroutines Parse starts.
workerCount(hasFilter, isSync, cpu) ==
    IF ~hasFilter THEN 0
    ELSE LET w0 == IF isSync THEN 1 ELSE cpu
             w1 == IF w0 = 1 THEN w0 + 1 ELSE w0
         IN  w1 - 1

\* Parser.Parse returns: the deferred functions run next.
Return(e, stmt) ==
    /\ ret' = e
    /\ how' = stmt
    /\ closes' = closes
    /\ pc' = "close"

(***************************************************************************)
(* The top-level Parse: header, options, workers.                          *)
(***************************************************************************)
\* The decimal digits and their values.
digit == [c \in {"0", "1", "2", "3", "4", "5", "6", "7", "8", "9"} |->
            CASE c = "0" -> 0 [] c = "1" -> 1 [] c = "2" -> 2 [] c = "3" -> 3
              [] c = "4" -> 4 [] c = "5" -> 5 [] c = "6" -> 6 [] c = "7" -> 7
              [] c = "8" -> 8 [] OTHER -> 9]

RECURSIVE decimal(_)
decimal(ds) == IF ds = << >> THEN 0 ELSE 10 * decimal(SubSeq(ds, 1, Len(ds) - 1)) + digit[ds[Len(ds)]]

\* strconv.Atoi: an optional sign, then at least one digit and digits only.
Atoi(s) ==
    LET sign == Len(s) > 0 /\ s[1] \in {"+", "-"}
        ds   == IF sign THEN Tail(s) ELSE s
    IN  IF ds = << >> \/ \E i \in 1..Len(ds) : ds[i] \notin DOMAIN digit
        THEN [v |-> 0, err |-> ErrSyntax]
        ELSE [v |-> IF s[1] = "-" THEN 0 - decimal(ds) ELSE decimal(ds), err |-> nil]

\* The error Parse returns before it reads any option, for a file that starts
\* with the bytes hdr (nil: the header is accepted).
headerError(hdr) ==
    IF Len(hdr) < 5 THEN ErrUnexpectedEOF
    ELSE IF SubSeq(hdr, 1, 5) # << "R", "E", "D", "I", "S" >> THEN ErrInvalidRDB
    ELSE IF Len(hdr) < 9 THEN ErrUnexpectedEOF
    ELSE LET version == Atoi(SubSeq(hdr, 6, 9))
         IN  IF version.err # nil THEN version.err
             ELSE IF version.v < 1 \/ version.v > 8 THEN ErrUnsupportedRDB
             ELSE nil

Parse ==
    /\ UNCHANGED funcVars
    /\ pc = "start"
    /\ \E hdr \in HeaderChoices, f \in BOOLEAN, sy \in BOOLEAN, g \in FilterChoices,
          s \in StrategyChoices, cpu \in 1..MaxCPU :
          /\ Explored(f, sy, g)
          /\ IF headerError(hdr) # nil
             THEN /\ ret' = headerError(hdr)
                  /\ how' = "header"
                  /\ closes' = closes
                  /\ pc' = "done"
                  /\ UNCHANGED << optionVars, strategy, wg, wpc >>
             ELSE /\ filter' = f
                  /\ skips' = g
                  /\ sync' = sy
                  /\ async' = (f /\ ~sy)
                  /\ numCPU' = IF f /\ ~sy THEN cpu ELSE 0
                  /\ strategy' = setStrategy(s)
                  /\ defaultStrategy' = s
                  /\ wg' = workerCount(f, sy, cpu)
                  /\ wpc' = [w \in Workers |->
                               IF w <= workerCount(f, sy, cpu) THEN "recv" ELSE "none"]
                  /\ pc' = "head"
                  /\ UNCHANGED retVars
    /\ UNCHANGED << state, sizeint, localVars, recVars, sendVars, callVars, ch, closed,
                    err, witem, wsds, wlist, wcb, lastRec, got, firstErr >>

(***************************************************************************)
(* Parser.Parse: the loop of the stream driver.                            *)
(***************************************************************************)
\* The select at the loop head: a posted error ends the parse.
Poll ==
    /\ UNCHANGED funcVars
    /\ pc = "head"
    /\ IF err # nil
       THEN /\ err' = nil
            /\ Return(err, "worker error")
       ELSE /\ pc' = "token"
            /\ UNCHANGED << err, retVars >>
    /\ UNCHANGED << optionVars, parserVars, localVars, recVars, sendVars, callVars, ch,
                    closed, wg, workerVars >>

\* A read fails: the data ends at a frame byte, inside a key or inside a value.
ReadError ==
    /\ UNCHANGED funcVars
    /\ pc \in {"token", "key", "value"}
    /\ Return(ErrUnexpectedEOF, "read error")
    /\ UNCHANGED << optionVars, parserVars, localVars, recVars, sendVars, callVars,
                    chanVars, workerVars >>

\* tokenEOF
TokenEOF ==
    /\ UNCHANGED funcVars
    /\ pc = "token"
    /\ Return(nil, "EOF")
    /\ UNCHANGED << optionVars, parserVars, localVars, recVars, sendVars, callVars,
                    chanVars, workerVars >>

\* tokenDB: the default strategy is restored and the database number read.
TokenDB ==
    /\ UNCHANGED funcVars
    /\ pc = "token"
    /\ tokens < MaxTokens
    /\ tokens' = tokens + 1
    /\ strategy' = setStrategy(defaultStrategy)
    /\ \E num \in DBNums :
          /\ currentDB' = num
          /\ currentKey' = [currentKey EXCEPT !.DB = num]
    /\ dbArg' = NoSkip
    /\ pc' = "dbcb"
    /\ expTok' = NoExp
    /\ UNCHANGED << optionVars, state, sizeint, exp, currentType, sendVars,
                    lastcall, keyed, recArg, aborted, retVars, chanVars, workerVars >>

\* p.database(currentDB), then the end of the iteration.
DatabaseCallback ==
    /\ UNCHANGED funcVars
    /\ pc = "dbcb"
    /\ IF filter /\ ~state.skip
       THEN \E a \in skips, r \in BOOLEAN :
               /\ lastcall' = [cb |-> "Database", n |-> currentDB]
               /\ keyed' = keyed
               /\ recArg' = recArg
               /\ dbArg' = a
               /\ IF r
                  THEN /\ aborted' = TRUE
                       /\ strategy' = dbSkip(strategy, a)
                       /\ Return(nil, "abort")
                       /\ UNCHANGED << state, sizeint, recVars >>
                  ELSE /\ EndIteration(dbSkip(strategy, a), state, sizeint)
                       /\ UNCHANGED << aborted, retVars >>
       ELSE /\ EndIteration(strategy, state, sizeint)
            /\ UNCHANGED << callVars, retVars >>
    /\ UNCHANGED << optionVars, localVars, sendVars, chanVars, workerVars >>

\* tokenAUX: two strings are read and printed unless skipped.
TokenAUX ==
    /\ UNCHANGED funcVars
    /\ pc = "token"
    /\ tokens < MaxTokens
    /\ tokens' = tokens + 1
    /\ \E v \in AuxChoices :
          LET sk == skipStage(strategy.running, {SkipMeta, SkipAll})
              m  == IF v = "int32" THEN state.memory + 8 ELSE state.memory
          IN  EndIteration(strategy,
                           [skip |-> sk, compressed |-> FALSE, memory |-> m], sizeint)
    /\ expTok' = NoExp
    /\ UNCHANGED << optionVars, exp, currentDB, sendVars, callVars, retVars, chanVars,
                    workerVars >>

\* tokenResize: two lengths are read and printed unless skipped.
TokenResize ==
    /\ UNCHANGED funcVars
    /\ pc = "token"
    /\ tokens < MaxTokens
    /\ tokens' = tokens + 1
    /\ EndIteration(strategy,
                    [state EXCEPT !.skip = skipStage(strategy.running, {SkipMeta, SkipAll})],
                    sizeint)
    /\ expTok' = NoExp
    /\ UNCHANGED << optionVars, exp, currentDB, sendVars, callVars, retVars, chanVars,
                    workerVars >>

\* tokenExpMSec, tokenExpSec: the expiry is read, or discarded when skipped.
TokenExpiry ==
    /\ UNCHANGED funcVars
    /\ pc = "token"
    /\ tokens < MaxTokens
    /\ tokens' = tokens + 1
    /\ \E e \in ExpiryChoices :
          LET sk == skipStage(strategy.running, {SkipExpiry, SkipAll})
          IN  /\ exp' = readExpiry(strategy.running, exp, e)
              /\ expTok' = [on |-> TRUE, v |-> e, skipped |-> sk]
              /\ EndIteration(strategy, [state EXCEPT !.skip = sk], sizeint)
    /\ UNCHANGED << optionVars, currentDB, sendVars, callVars, retVars, chanVars,
                    workerVars >>

\* The record's first step without the call of p.typ: the key is read next.
TokenRecordWithoutType ==
    /\ UNCHANGED funcVars
    /\ pc = "token"
    /\ tokens < MaxTokens
    /\ tokens' = tokens + 1
    /\ \E b \in InputEncodings : currentType' = b
    /\ pc' = "key"
    /\ UNCHANGED << optionVars, parserVars, exp, expTok, currentDB, currentKey, sendVars,
                    callVars, retVars, chanVars, workerVars >>

\* Any other byte starts a record: it is the record's encoding.
TokenRecord ==
    /\ UNCHANGED funcVars
    /\ pc = "token"
    /\ tokens < MaxTokens
    /\ tokens' = tokens + 1
    /\ \E b \in InputEncodings : currentType' = b
    /\ pc' = "type"
    /\ UNCHANGED << optionVars, parserVars, exp, expTok, currentDB, currentKey, sendVars,
                    callVars, retVars, chanVars, workerVars >>

\* p.typ calling the Type callback without the test of p.state.skip.
TypeStageWithoutSkipTest ==
    /\ UNCHANGED funcVars
    /\ pc = "type"
    /\ LET sk == skipStage(strategy.running, {SkipAll})
       IN  /\ state' = [state EXCEPT !.skip = sk]
           /\ IF filter
              THEN \E a \in skips, r \in BOOLEAN :
                      /\ lastcall' = [cb |-> "Type", n |-> tokens]
                      /\ keyed' = keyed
                      /\ recArg' = a
                      /\ strategy' = recordSkip(strategy, a)
                      /\ IF r
                         THEN aborted' = TRUE /\ Return(nil, "abort")
                         ELSE pc' = "key" /\ UNCHANGED << aborted, retVars >>
              ELSE /\ pc' = "key"
                   /\ UNCHANGED << lastcall, keyed, recArg, strategy, aborted, retVars >>
    /\ UNCHANGED << optionVars, sizeint, localVars, recVars, sendVars, dbArg, chanVars,
                    workerVars >>

\* p.skipStage(SkipAll); p.typ(currentType)
TypeStage ==
    /\ UNCHANGED funcVars
    /\ pc = "type"
    /\ LET sk == skipStage(strategy.running, {SkipAll})
       IN  /\ state' = [state EXCEPT !.skip = sk]
           /\ IF filter /\ ~sk
              THEN \E a \in skips, r \in BOOLEAN :
                      /\ lastcall' = [cb |-> "Type", n |-> tokens]
                      /\ keyed' = keyed
                      /\ recArg' = a
                      /\ strategy' = recordSkip(strategy, a)
                      /\ IF r
                         THEN aborted' = TRUE /\ Return(nil, "abort")
                         ELSE pc' = "key" /\ UNCHANGED << aborted, retVars >>
              ELSE /\ pc' = "key"
                   /\ UNCHANGED << lastcall, keyed, recArg, strategy, aborted, retVars >>
    /\ UNCHANGED << optionVars, sizeint, localVars, recVars, sendVars, dbArg, chanVars,
                    workerVars >>

\* The cost readRawBytes(true) charges for a plain key string k.
keyCost(k, si) == IF k.len <= 32 /\ k.int THEN si ELSE alloc(k.len)

\* currentKey.memory = p.getMemory() + _overhead.top(exp)
keyMemory(k, si, e) == keyCost(k, si) + top(e)

\* p.skipStage(SkipAll); the key is read; p.key(currentKey)
KeyStage ==
    /\ UNCHANGED funcVars
    /\ pc = "key"
    /\ \E k \in KeyChoices :
          LET sk == skipStage(strategy.running, {SkipAll})
              key == [Key |-> IF sk THEN 0 ELSE tokens,
                      DB |-> currentKey.DB,
                      Expiry |-> exp,
                      Encoding |-> currentType,
                      memory |-> keyMemory(k, sizeint, exp),
                      rec |-> tokens]
          IN  /\ state' = [skip |-> sk, compressed |-> FALSE, memory |-> 0]
              /\ currentKey' = key
              /\ IF filter /\ ~sk
                 THEN \E a \in skips, r \in BOOLEAN :
                         /\ lastcall' = [cb |-> "Key", n |-> tokens]
                         /\ keyed' = IF r THEN keyed ELSE keyed \cup {tokens}
                         /\ recArg' = IF a = NoSkip THEN recArg ELSE a
                         /\ strategy' = recordSkip(strategy, a)
                         /\ IF r
                            THEN aborted' = TRUE /\ Return(nil, "abort")
                            ELSE pc' = "value" /\ UNCHANGED << aborted, retVars >>
                 ELSE /\ pc' = "value"
                      /\ UNCHANGED << lastcall, keyed, recArg, strategy, aborted, retVars >>
    /\ UNCHANGED << optionVars, sizeint, localVars, currentType, sendVars, dbArg,
                    chanVars, workerVars >>

\* readValue(memory) on one value string of the record: the slot newValue
\* builds. pl: how the string is stored; sk: p.state.skip; content: its bytes.
readValue(memory, pl, sk, content) ==
    IF pl = "plain"
    THEN [c |-> FALSE, l |-> PayloadLen,
          m |-> IF memory THEN alloc(PayloadLen) ELSE 0,
          b |-> IF sk THEN 0 ELSE content, bad |-> FALSE]
    ELSE [c |-> ~sk, l |-> PayloadLen,
          m |-> IF memory THEN alloc(PayloadLen) ELSE 0,
          b |-> IF sk THEN 0 ELSE content, bad |-> (~sk /\ pl = "badlzf")]

\* The value switch of Parser.Parse, then p.filterRedisType(currentKey, values...).
ValueStage ==
    /\ UNCHANGED funcVars
    /\ pc = "value"
    /\ exp' = -1
    /\ expTok' = NoExp
    /\ IF currentType \notin SupportedEncodings
       THEN \* default: log.Printf("unsupported encoding"); return nil
            /\ state' = [state EXCEPT
                           !.skip = skipStage(strategy.running, {SkipValue, SkipAll})]
            /\ Return(nil, "unsupported")
            /\ UNCHANGED << strategy, sizeint, rt, recArg, recVars >>
       ELSE \E pl \in PayloadChoices :
               LET sk  == skipStage(strategy.running, {SkipValue, SkipAll})
                   si  == IF currentType = EncodingList THEN 4 ELSE sizeint
                   mem == currentType \in {EncodingString, EncodingList, EncodingSet,
                                           EncodingHash, EncodingSortedSet,
                                           EncodingSortedSet2}
                   v   == readValue(mem, pl, sk, currentKey.rec)
                   sk2 == skipStage(strategy.running, {SkipAll})
                   st2 == [skip |-> sk2, compressed |-> FALSE, memory |-> 0]
               IN  IF ~filter \/ sk2
                   THEN /\ EndIteration(strategy, st2, si)
                        /\ recArg' = NoSkip
                        /\ UNCHANGED << rt, retVars >>
                   ELSE /\ rt' = [key |-> currentKey, values |-> << v >>,
                                  expect |-> << >>]
                        /\ state' = st2
                        /\ sizeint' = si
                        /\ pc' = "send"
                        /\ UNCHANGED << strategy, recArg, retVars, recVars >>
    /\ want' = IF filter /\ currentType \in SupportedEncodings
                     /\ ~Has(strategy.running, SkipAll)
                 THEN want \cup {<< currentKey.rec, currentType >>}
                 ELSE want
    /\ UNCHANGED << optionVars, currentDB, tokens, held, osds, olist, lastcall, keyed, dbArg, aborted,
                    chanVars, workerVars >>

(***************************************************************************)
(* The worker's reconstruction of a record (type redisType).               *)
(***************************************************************************)
\* rt.decompress(): the error of the first compressed slot readLZF rejects.
decompress(item) ==
    IF \E i \in 1..Len(item.values) : item.values[i].c /\ item.values[i].bad
    THEN ErrInvalidCompressedData(item.key.rec)
    ELSE nil

\* value.readZiplist(): the elements of the frame; none when the bytes are nil.
readZiplist(v) == IF v.b = 0 THEN << >> ELSE << v.b >>

\* rt.string(sds): the new sds.Value.
string(item, old) == IF item.values[1].b # 0 THEN item.values[1].b ELSE old

\* rt.list(list): the new list.Values.
list(item, old) ==
    CASE item.key.Encoding = EncodingList ->
            [i \in 1..Len(item.values) |-> item.values[i].b]
      [] item.key.Encoding = EncodingZiplist -> readZiplist(item.values[1])
      [] item.key.Encoding = EncodingQuicklist -> old \o readZiplist(item.values[1])
      [] OTHER -> old

\* rt.set, rt.hash, rt.sortedset: a map made anew and filled from the item.
fresh(item) == [i \in 1..Len(item.values) |-> item.values[i].b]

\* One turn of the switch of filterWorker on a worker whose reused values hold
\* sds and lst: the values it holds afterwards and the contents it passes to
\* the filter.
rebuild(item, sds, lst) ==
    LET typ == Encoding2Type(item.key.Encoding)
        s2  == IF typ = "string" THEN string(item, sds) ELSE sds
        l2  == IF typ = "list" THEN list(item, lst) ELSE lst
    IN  [sds |-> s2, list |-> l2,
         value |-> CASE typ = "string" -> << s2 >>
                     [] typ = "list" -> l2
                     [] OTHER -> fresh(item)]

(***************************************************************************)
(* filterRedisType: the select, and the shutdown of Parser.Parse.          *)
(***************************************************************************)
\* The send on a channel without a capacity: it never blocks.
SendUnbounded ==
    /\ UNCHANGED funcVars
    /\ pc = "send"
    /\ LET o == IF decompress(rt) = nil THEN rebuild(rt, osds, olist)
                ELSE [sds |-> osds, list |-> olist, value |-> << >>]
       IN  /\ ch' = Append(ch, [rt EXCEPT !.expect = o.value])
           /\ osds' = o.sds
           /\ olist' = o.list
    /\ rt' = NoItem
    /\ EndIteration(strategy, state, sizeint)
    /\ recArg' = NoSkip
    /\ UNCHANGED << optionVars, localVars, held, want, lastcall, keyed, dbArg, aborted, retVars,
                    closed, err, wg, workerVars >>

\* The item goes on the channel. The lone worker of ordered mode would pass
\* the filter the contents recorded in expect.
Send ==
    /\ UNCHANGED funcVars
    /\ pc = "send"
    /\ Len(ch) < QueueCap
    /\ LET o == IF decompress(rt) = nil THEN rebuild(rt, osds, olist)
                ELSE [sds |-> osds, list |-> olist, value |-> << >>]
       IN  /\ ch' = Append(ch, [rt EXCEPT !.expect = o.value])
           /\ osds' = o.sds
           /\ olist' = o.list
    /\ rt' = NoItem
    /\ EndIteration(strategy, state, sizeint)
    /\ recArg' = NoSkip
    /\ UNCHANGED << optionVars, localVars, held, want, lastcall, keyed, dbArg, aborted, retVars,
                    closed, err, wg, workerVars >>

\* A posted error is received from p.err instead ...
TakeError ==
    /\ UNCHANGED funcVars
    /\ pc = "send"
    /\ err # nil
    /\ held' = err
    /\ err' = nil
    /\ pc' = "repost"
    /\ UNCHANGED << optionVars, parserVars, localVars, recVars, rt, osds, olist, want,
                    callVars, retVars, ch, closed, wg, workerVars >>

\* The case on p.err without p.close(err): the error taken is not posted back.
RepostDropsError ==
    /\ UNCHANGED funcVars
    /\ pc = "repost"
    /\ err' = err
    /\ held' = nil
    /\ rt' = NoItem
    /\ EndIteration(strategy, state, sizeint)
    /\ recArg' = NoSkip
    /\ UNCHANGED << optionVars, localVars, osds, olist, want, lastcall, keyed, dbArg, aborted, retVars,
                    ch, closed, wg, workerVars >>

\* ... and posted back with p.close(err); the item is not sent.
Repost ==
    /\ UNCHANGED funcVars
    /\ pc = "repost"
    /\ err' = close(err, held)
    /\ held' = nil
    /\ rt' = NoItem
    /\ EndIteration(strategy, state, sizeint)
    /\ recArg' = NoSkip
    /\ UNCHANGED << optionVars, localVars, osds, olist, want, lastcall, keyed, dbArg, aborted, retVars,
                    ch, closed, wg, workerVars >>

\* The deferred function of Parser.Parse: the channels are closed ...
CloseChannels ==
    /\ UNCHANGED funcVars
    /\ pc = "close"
    /\ closed' = (sync \/ async)
    /\ pc' = "wait"
    /\ UNCHANGED << optionVars, parserVars, localVars, recVars, sendVars, callVars,
                    retVars, ch, err, wg, workerVars >>

\* The deferred function returning without p.Wait().
WaitMissing ==
    /\ UNCHANGED funcVars
    /\ pc = "wait"
    /\ pc' = "done"
    /\ closes' = closes + 1
    /\ UNCHANGED << optionVars, parserVars, localVars, recVars, sendVars, callVars,
                    ret, how, chanVars, workerVars >>

\* ... and p.Wait() returns once every worker has called Done; then the
\* deferred c.Close() runs.
Wait ==
    /\ UNCHANGED funcVars
    /\ pc = "wait"
    /\ wg = 0
    /\ pc' = "done"
    /\ closes' = closes + 1
    /\ UNCHANGED << optionVars, parserVars, localVars, recVars, sendVars, callVars,
                    ret, how, chanVars, workerVars >>

(***************************************************************************)
(* filterWorker.                                                           *)
(***************************************************************************)
\* rt, ok := <-ch with an item buffered
Receive(w) ==
    /\ UNCHANGED funcVars
    /\ wpc[w] = "recv"
    /\ Len(ch) > 0
    /\ witem' = [witem EXCEPT ![w] = Head(ch)]
    /\ ch' = Tail(ch)
    /\ wpc' = [wpc EXCEPT ![w] = "work"]
    /\ UNCHANGED << producerVars, closed, err, wg, wsds, wlist, wcb, lastRec, got,
                    firstErr >>

\* The worker leaving as soon as the channel is closed, whatever is buffered.
ExitWithoutDraining(w) ==
    /\ UNCHANGED funcVars
    /\ wpc[w] = "recv"
    /\ closed
    /\ wpc' = [wpc EXCEPT ![w] = "exited"]
    /\ wg' = wg - 1
    /\ UNCHANGED << producerVars, ch, closed, err, witem, wsds, wlist, wcb, lastRec, got,
                    firstErr >>

\* rt, ok := <-ch on the closed and drained channel: return, p.Done()
Exit(w) ==
    /\ UNCHANGED funcVars
    /\ wpc[w] = "recv"
    /\ Len(ch) = 0
    /\ closed
    /\ wpc' = [wpc EXCEPT ![w] = "exited"]
    /\ wg' = wg - 1
    /\ UNCHANGED << producerVars, ch, closed, err, witem, wsds, wlist, wcb, lastRec, got,
                    firstErr >>

\* decompress fails: p.close(err); return, p.Done()
Fail(w) ==
    /\ UNCHANGED funcVars
    /\ wpc[w] = "work"
    /\ decompress(witem[w]) # nil
    /\ err' = close(err, decompress(witem[w]))
    /\ firstErr' = IF firstErr = nil THEN decompress(witem[w]) ELSE firstErr
    /\ wpc' = [wpc EXCEPT ![w] = "exited"]
    /\ wg' = wg - 1
    /\ UNCHANGED << producerVars, ch, closed, witem, wsds, wlist, wcb, lastRec, got >>

\* The record is rebuilt in the worker's reused value and the filter is called.
Deliver(w) ==
    /\ UNCHANGED funcVars
    /\ wpc[w] = "work"
    /\ decompress(witem[w]) = nil
    /\ LET item == witem[w]
           new  == rebuild(item, wsds[w], wlist[w])
       IN  /\ wsds' = [wsds EXCEPT ![w] = new.sds]
           /\ wlist' = [wlist EXCEPT ![w] = new.list]
           /\ wcb' = [wcb EXCEPT ![w] =
                        [cb |-> Encoding2Type(item.key.Encoding), key |-> item.key,
                         value |-> new.value, expect |-> item.expect,
                         late |-> aborted, prev |-> lastRec,
                         skipped |-> \A i \in 1..Len(item.values) :
                                        item.values[i].b = 0]]
           /\ lastRec' = item.key.rec
           /\ got' = got (+) SetToBag({<< item.key.rec,
                                          Encoding2Type(item.key.Encoding) >>})
    /\ wpc' = [wpc EXCEPT ![w] = "cb"]
    /\ UNCHANGED << producerVars, chanVars, witem, firstErr >>

\* The callback returns; rt.reset()
CallbackReturn(w) ==
    /\ UNCHANGED funcVars
    /\ wpc[w] = "cb"
    /\ witem' = [witem EXCEPT ![w] = NoItem]
    /\ wcb' = [wcb EXCEPT ![w] = NoCallback]
    /\ wpc' = [wpc EXCEPT ![w] = "recv"]
    /\ UNCHANGED << producerVars, chanVars, wsds, wlist, lastRec, got, firstErr >>

(***************************************************************************)
(* Specifications.                                                         *)
(***************************************************************************)
Producer ==
    \/ Parse \/ Poll \/ ReadError \/ TokenEOF \/ TokenDB \/ DatabaseCallback
    \/ TokenAUX \/ TokenResize \/ TokenExpiry \/ TokenRecord
    \/ TypeStage \/ KeyStage \/ ValueStage
    \/ Send \/ TakeError \/ Repost \/ CloseChannels \/ Wait

Worker(w) == Receive(w) \/ Exit(w) \/ Fail(w) \/ Deliver(w) \/ CallbackReturn(w)

Next == Producer \/ \E w \in Workers : Worker(w)

Spec == Init /\ [][Next]_vars

\* The Go scheduler runs every goroutine that can take a step.
FairSpec ==
    /\ Spec
    /\ WF_vars(Producer)
    /\ \A w \in Workers : WF_vars(Worker(w))

(***************************************************************************)
(* Functions of the package applied on their own, to inputs of their whole *)
(* domain.                                                                 *)
(***************************************************************************)
progVars == << producerVars, chanVars, workerVars >>

\* Parse on a file that starts with the bytes h, up to the version check.
ApplyHeader ==
    /\ eval = NoEval
    /\ \E h \in Headers : eval' = [fn |-> "Parse", arg |-> h, out |-> headerError(h)]
    /\ UNCHANGED << progVars, reader, stream, pair >>

\* One iteration of Parser.Parse on an optional EXPIRE_S frame, then the key
\* stage of the record that follows, under the running strategy s.
ApplyKey ==
    /\ eval = NoEval
    /\ \E s \in {0, SkipExpiry}, f \in ExpiryFrames, k \in KeyInputs :
          LET e == IF f = << >> THEN -1 ELSE readExpiry(s, -1, little32(f))
          IN  eval' = [fn |-> "key", arg |-> [strategy |-> s, frame |-> f, key |-> k],
                       out |-> [Expiry |-> e, memory |-> keyMemory(k, 8, e)]]
    /\ UNCHANGED << progVars, reader, stream, pair >>

\* little16: two bytes, least significant first, as a signed 16-bit integer.
little16(b) ==
    LET low == b[1] + 256 * (b[2] % 128)
    IN  IF b[2] >= 128 THEN low - 32768 ELSE low

\* v / 10 of Go, which truncates toward zero.
quo10(v) ==
    IF v >= 0 THEN v \div 10
    ELSE LET m == 0 - (v + 1)
         IN  0 - ((m \div 10) + (IF m % 10 = 9 THEN 1 ELSE 0))

RECURSIVE digits(_)
digits(v) == IF v > -10 /\ v < 10 THEN 1 ELSE 1 + digits(quo10(v))

\* len(strconv.Itoa(v)): the digits of v and its sign.
ItoaLen(v) == (IF v < 0 THEN 1 ELSE 0) + digits(v)

\* The switch of readZiplist on an entry's flag byte: the length of the
\* string the entry is delivered as.
entryLen(e) ==
    CASE e.first \div 64 = 0 -> e.first % 64
      [] e.first \div 64 = 3 /\ (e.first \div 16) % 4 = 0 -> ItoaLen(little16(e.data))
      [] e.first \div 64 = 3 /\ (e.first \div 16) % 4 = 1 -> ItoaLen(little32(e.data))
      [] e.first = 240 ->
            ItoaLen(LET low == e.data[1] + 256 * e.data[2] + 65536 * (e.data[3] % 128)
                    IN  IF e.data[3] >= 128 THEN low - 8388608 ELSE low)
      [] e.first = 254 ->
            ItoaLen(IF e.data[1] >= 128 THEN e.data[1] - 256 ELSE e.data[1])
      [] e.first >= 241 /\ e.first <= 253 -> ItoaLen(e.first - 241)
      [] OTHER -> 0

\* The bytes of a ziplist of n entries e: zlbytes, zltail, zllen, the entries
\* with their previous-length byte, zlend.
ziplistLen(n, e) == 4 + 4 + 2 + n * (1 + 1 + Len(e.data)) + 1

quicklist(size) == 2 * arch + arch + 2 * 4 + (4 * arch + arch + 2 * 4) * size

\* rt.list(list) on a record of one ziplist: list.memory.
listMemory(enc, l) ==
    CASE enc = EncodingZiplist -> l
      [] enc = EncodingQuicklist -> quicklist(1) + l
      [] OTHER -> 0

\* A list record stored as one ziplist of n entries e, from the key stage to
\* the List passed to the filter: its Memory() and the lengths of its Values.
ApplyList ==
    /\ eval = NoEval
    /\ \E enc \in {EncodingZiplist, EncodingQuicklist}, n \in 0..MaxEntries,
          e \in EntryChoices, k \in KeyInputs :
          eval' = [fn |-> "list", arg |-> [Encoding |-> enc, n |-> n, entry |-> e, key |-> k],
                   out |-> [Memory |-> keyMemory(k, 8, -1) + listMemory(enc, ziplistLen(n, e)),
                            Values |-> [i \in 1..n |-> entryLen(e)]]]
    /\ UNCHANGED << progVars, reader, stream, pair >>

\* p.readRawString(memory), which Parser.Parse calls for the two strings of
\* an AUX frame and for a record's key: whether it calls readLZF, and its error.
readRawString(memory, pl, sk) ==
    LET v   == readValue(memory, pl, sk, 1)
        lzf == v.b # 0 /\ v.c
    IN  [lzf |-> lzf,
         err |-> IF lzf /\ v.bad THEN ErrInvalidCompressedData(0) ELSE nil]

\* The producer reads a key or an AUX string stored as pl, skipped or not.
ApplyRawString ==
    /\ eval = NoEval
    /\ \E memory \in BOOLEAN, pl \in {"plain", "lzf", "badlzf"}, sk \in BOOLEAN :
          eval' = [fn |-> "readRawString",
                   arg |-> [memory |-> memory, stored |-> pl, skip |-> sk],
                   out |-> readRawString(memory, pl, sk)]
    /\ UNCHANGED << progVars, reader, stream, pair >>

\* big32: four bytes, most significant first, as a signed 32-bit integer.
big32(b) ==
    LET low == 16777216 * (b[1] % 128) + 65536 * b[2] + 256 * b[3] + b[4]
    IN  IF b[1] >= 128 THEN (low - 2147483647) - 1 ELSE low

\* readLength(withEncoding) on the first byte and the bytes after it: the
\* length, whether it names a special format, the error.
readLength(first, rest, withEncoding) ==
    IF first = 128
    THEN [n |-> big32(rest), encoded |-> FALSE, err |-> nil]
    ELSE CASE first \div 64 = 0 -> [n |-> first % 64, encoded |-> FALSE, err |-> nil]
           [] first \div 64 = 1 ->
                 [n |-> rest[1] + 256 * (first % 64), encoded |-> FALSE, err |-> nil]
           [] first \div 64 = 3 ->
                 IF ~withEncoding
                 THEN [n |-> 0, encoded |-> FALSE, err |-> ErrInvalidLengthEncoding]
                 ELSE [n |-> first % 64, encoded |-> TRUE, err |-> nil]
           [] OTHER -> [n |-> 0, encoded |-> FALSE, err |-> ErrInvalidLengthEncoding]

ApplyLength ==
    /\ eval = NoEval
    /\ \E l \in LengthInputs :
          eval' = [fn |-> "readLength", arg |-> l,
                   out |-> readLength(l.first, l.rest, l.withEncoding)]
    /\ UNCHANGED << progVars, reader, stream, pair >>

\* readLZF(buf, len(buf), ulen) from the position ip of the input and op of
\* the output: the bytes out[:op], ErrInvalidCompressedData, or the panic of
\* an index past the end of buf.
RECURSIVE lzfFrom(_, _, _, _, _)
lzfFrom(buf, ulen, ip, op, out) ==
    LET clen == Len(buf)
        Err == [res |-> "ErrInvalidCompressedData", out |-> << >>]
        Panic == [res |-> "panic", out |-> << >>]
    IN  IF ip >= clen THEN [res |-> "ok", out |-> SubSeq(out, 1, op)]
        ELSE LET ctrl == buf[ip + 1]
                 ip1  == ip + 1
             IN  IF ctrl < 32
                 THEN LET n == ctrl + 1
                      IN  IF n + ip1 > clen \/ n + op > ulen THEN Err
                          ELSE lzfFrom(buf, ulen, ip1 + n, op + n,
                                   [j \in 1..ulen |->
                                       IF op < j /\ j <= op + n THEN buf[ip1 + (j - op)]
                                       ELSE out[j]])
                 ELSE LET len0 == ctrl \div 32
                          ref0 == op - (ctrl % 32) * 256 - 1
                      IN  IF len0 = 7 /\ ip1 >= Len(buf) THEN Panic
                          ELSE LET len1 == IF len0 = 7 THEN len0 + buf[ip1 + 1] ELSE len0
                                   ip2  == IF len0 = 7 THEN ip1 + 1 ELSE ip1
                               IN  IF len0 = 7 /\ ip2 >= clen THEN Err
                                   ELSE IF ip2 >= Len(buf) THEN Panic
                                   ELSE LET ref  == ref0 - buf[ip2 + 1]
                                            len2 == len1 + 2
                                        IN  IF op + len2 > ulen \/ ref < 0 THEN Err
                                            ELSE lzfFrom(buf, ulen, ip2 + 1, op + len2,
                                                     [j \in 1..ulen |->
                                                         IF op < j /\ j <= op + len2
                                                         THEN out[ref + ((j - 1 - op) % (op - ref)) + 1]
                                                         ELSE out[j]])

readLZF(buf, ulen) == lzfFrom(buf, ulen, 0, 0, [j \in 1..ulen |-> 0])

ApplyLZF ==
    /\ eval = NoEval
    /\ \E buf \in LzfInputs, ulen \in 0..(MaxLzf + 1) :
          eval' = [fn |-> "readLZF", arg |-> [buf |-> buf, ulen |-> ulen],
                   out |-> readLZF(buf, ulen)]
    /\ UNCHANGED << progVars, reader, stream, pair >>

\* The bytes of a zipmap holding the pairs ps:
\* <zmlen><len>key<len><free>value<free bytes>...<zmend>. The bytes of the
\* i-th key are 10+i, of the i-th value 20+i, the free bytes are 99.
RECURSIVE zipmapPairs(_, _)
zipmapPairs(ps, i) ==
    IF i > Len(ps) THEN << >>
    ELSE << ps[i].klen >> \o [j \in 1..ps[i].klen |-> 10 + i]
            \o << ps[i].vlen, ps[i].free >> \o [j \in 1..ps[i].vlen |-> 20 + i]
            \o [j \in 1..ps[i].free |-> 99]
            \o zipmapPairs(ps, i + 1)

zipmapBytes(ps) == << Len(ps) >> \o zipmapPairs(ps, 1) \o << 255 >>

\* The strings a reader of the zipmap format finds in it.
zipmapStrings(ps) ==
    [j \in 1..(2 * Len(ps)) |->
        IF j % 2 = 1 THEN [x \in 1..ps[(j + 1) \div 2].klen |-> 10 + (j + 1) \div 2]
        ELSE [x \in 1..ps[j \div 2].vlen |-> 20 + j \div 2]]

\* MemReader.ReadBytes(k) on the bytes b at the cursor i.
memBytes(b, i, k) ==
    IF i > Len(b) THEN [err |-> "panic", str |-> << >>, i |-> i]
    ELSE IF k > Len(b) - i THEN [err |-> ErrUnexpectedEOF, str |-> << >>, i |-> i]
    ELSE [err |-> nil, str |-> SubSeq(b, i + 1, i + k), i |-> i + k]

\* readZipmapEntry(r, value): the string, the error, the cursor afterwards.
readZipmapEntry(b, i, value) ==
    LET first == memBytes(b, i, 1)
    IN  IF first.err # nil THEN first
        ELSE IF first.str[1] = 255
        THEN [err |-> ErrInvalidZipmapEntry, str |-> << >>, i |-> first.i]
        ELSE LET l4  == IF first.str[1] = 254 THEN memBytes(b, first.i, 4) ELSE first
                 len == IF first.str[1] = 254 /\ l4.err = nil THEN little32(l4.str)
                        ELSE first.str[1]
             IN  IF l4.err # nil THEN l4
                 ELSE IF ~value THEN memBytes(b, l4.i, len)
                 ELSE LET n == memBytes(b, l4.i, 1)
                      IN  IF n.err # nil THEN n
                          ELSE \* r.Discard(int(n)), then r.readString
                               memBytes(b, n.i + n.str[1], len)

\* The loop of value.readZipmap from the cursor i with the strings values.
RECURSIVE zipmapLoop(_, _, _)
zipmapLoop(b, i, values) ==
    LET k == readZipmapEntry(b, i, FALSE)
    IN  IF k.err # nil THEN [err |-> k.err, values |-> << >>]
        ELSE LET v == readZipmapEntry(b, k.i, TRUE)
             IN  IF v.err # nil THEN [err |-> v.err, values |-> << >>]
                 ELSE LET vs == values \o << k.str, v.str >>
                      IN  IF v.i < Len(b) /\ b[v.i + 1] = 255
                          THEN [err |-> nil, values |-> vs]
                          ELSE zipmapLoop(b, v.i, vs)

\* value.readZipmap: values starts as make([]string, zmlen*2).
readZipmap(b) ==
    LET zmlen == memBytes(b, 0, 1)
    IN  IF zmlen.err # nil THEN [err |-> zmlen.err, values |-> << >>]
        ELSE zipmapLoop(b, zmlen.i,
                        [j \in 1..((zmlen.str[1] * 2) % 256) |-> << >>])

ApplyZipmap ==
    /\ eval = NoEval
    /\ \E ps \in ZipmapInputs :
          eval' = [fn |-> "readZipmap", arg |-> ps, out |-> readZipmap(zipmapBytes(ps))]
    /\ UNCHANGED << progVars, reader, stream, pair >>

ApplyJemalloc ==
    /\ eval = NoEval
    /\ \E size \in JemallocSizes :
          eval' = [fn |-> "jemalloc", arg |-> size, out |-> jemallocCall(size)]
    /\ UNCHANGED << progVars, reader, stream, pair >>

\* readValue(true) on a plain string k of a record of encoding b: p.sizeint
\* is 8 when the record begins and the list case sets it to 4.
ApplyValue ==
    /\ eval = NoEval
    /\ \E k \in KeyInputs,
          b \in {EncodingString, EncodingList, EncodingSet, EncodingHash, EncodingSortedSet} :
          LET si == IF b = EncodingList THEN 4 ELSE 8
          IN  eval' = [fn |-> "readValue", arg |-> [Encoding |-> b, str |-> k],
                       out |-> [memory |-> keyCost(k, si)]]
    /\ UNCHANGED << progVars, reader, stream, pair >>

FuncNext ==
    \/ ApplyHeader \/ ApplyKey \/ ApplyList \/ ApplyRawString \/ ApplyLength \/ ApplyLZF
    \/ ApplyZipmap \/ ApplyJemalloc \/ ApplyValue

FuncSpec == Init /\ [][FuncNext]_vars

(***************************************************************************)
(* A MemReader used on its own.                                            *)
(***************************************************************************)
\* The slice expression r.b[r.i:] panics when r.i > len(r.b).
slicePanics(r) == r.i > r.n

\* A read of k bytes: ReadByte (k = 1) and ReadBytes(k).
read(r, op, k) ==
    LET out == IF slicePanics(r) THEN "panic"
               ELSE IF k > r.n - r.i THEN "ErrUnexpectedEOF" ELSE "ok"
    IN  [r EXCEPT !.i = IF out = "ok" THEN r.i + k ELSE r.i,
                  !.last = [op |-> op, arg |-> k, out |-> out, before |-> r.i]]

\* NewMemReader: the mapped file.
NewMemReader ==
    /\ ~reader.made
    /\ \E n \in 0..MaxData : reader' = [NoReader EXCEPT !.made = TRUE, !.n = n]
    /\ UNCHANGED << progVars, eval, stream, pair >>

Usable == reader.made /\ reader.last.out # "panic" /\ reader.i <= MaxCursor

\* Discard(n): r.i += n
Discard ==
    /\ Usable
    /\ \E k \in 0..MaxArg :
          reader' = [reader EXCEPT !.i = reader.i + k,
                                   !.last = [op |-> "Discard", arg |-> k, out |-> "ok",
                                             before |-> reader.i]]
    /\ UNCHANGED << progVars, eval, stream, pair >>

ReadByte ==
    /\ Usable
    /\ reader' = read(reader, "ReadByte", 1)
    /\ UNCHANGED << progVars, eval, stream, pair >>

ReadBytes ==
    /\ Usable
    /\ \E k \in 0..MaxArg : reader' = read(reader, "ReadBytes", k)
    /\ UNCHANGED << progVars, eval, stream, pair >>

ReaderNext == NewMemReader \/ Discard \/ ReadByte \/ ReadBytes

ReaderSpec == Init /\ [][ReaderNext]_vars

(***************************************************************************)
(* Two parses of one well-formed file, a and b, under strategies of their  *)
(* own: the bytes each consumes, frame by frame, counted from the first    *)
(* frame. Every read finds its bytes, so Discard(n) and ReadBytes(n) both  *)
(* advance the position by n.                                              *)
(***************************************************************************)
StreamStrategies == {0, SkipMeta, SkipExpiry, SkipValue, SkipAll}
LengthForms == {"6bit", "14bit", "0x80"}
StreamKeys ==
    { [kind |-> "plain", prefix |-> "6bit", length |-> PayloadLen, clen |-> 0],
      [kind |-> "int8", prefix |-> "encoded", length |-> 0, clen |-> 0],
      [kind |-> "lzf", prefix |-> "encoded", length |-> PayloadLen, clen |-> 2] }
StreamStrings ==
    StreamKeys
        \cup { [kind |-> "plain", prefix |-> "14bit", length |-> 0, clen |-> 0],
               [kind |-> "int16", prefix |-> "encoded", length |-> 0, clen |-> 0],
               [kind |-> "int32", prefix |-> "encoded", length |-> 0, clen |-> 0],
               [kind |-> "lzf", prefix |-> "encoded", length |-> PayloadLen, clen |-> 3] }
StreamValues ==
    { [enc |-> EncodingString, b |-> 0], [enc |-> EncodingSortedSet, b |-> 3],
      [enc |-> EncodingSortedSet, b |-> 253], [enc |-> EncodingSortedSet2, b |-> 0] }

DiscardConsumed(n) == n
ReadBytesConsumed(n) == n

\* readLength: the first byte and what follows it.
readLengthConsumed(form) ==
    CASE form = "6bit" -> ReadBytesConsumed(1)
      [] form = "14bit" -> ReadBytesConsumed(1) + ReadBytesConsumed(1)
      [] form = "0x80" -> ReadBytesConsumed(1) + ReadBytesConsumed(4)
      [] form = "0x81" -> ReadBytesConsumed(1) + ReadBytesConsumed(8)
      [] form = "encoded" -> ReadBytesConsumed(1)

\* readCompressed discarding the uncompressed length.
readCompressedDiscardsUlen(s, skip) ==
    readLengthConsumed("6bit") + readLengthConsumed("6bit")
        + IF skip THEN DiscardConsumed(s.length) ELSE ReadBytesConsumed(s.clen)

\* readCompressed: clen, ulen, then p.Discard(clen) or p.ReadBytes(clen).
readCompressedConsumed(s, skip) ==
    readLengthConsumed("6bit") + readLengthConsumed("6bit")
        + IF skip THEN DiscardConsumed(s.clen) ELSE ReadBytesConsumed(s.clen)

\* readRawBytes: the length, then the bytes, the integer or the compressed string.
readRawBytesConsumed(s, skip) ==
    readLengthConsumed(s.prefix)
        + CASE s.kind = "plain" -> ReadBytesConsumed(s.length)
            [] s.kind = "lzf" -> readCompressedConsumed(s, skip)
            [] s.kind = "int32" -> ReadBytesConsumed(4)
            [] s.kind = "int16" -> ReadBytesConsumed(2)
            [] s.kind = "int8" -> ReadBytesConsumed(1)

\* readDouble
readDoubleConsumed(d, skip) ==
    IF d.enc = EncodingSortedSet2
    THEN IF skip THEN DiscardConsumed(8) ELSE ReadBytesConsumed(8)
    ELSE ReadBytesConsumed(1)
            + IF d.b \in {253, 254, 255} THEN 0
              ELSE IF skip THEN DiscardConsumed(d.b) ELSE ReadBytesConsumed(d.b)

\* The running strategies of the two parses: set by EnableStrategy and by the
\* Skip calls of the callbacks.
StreamStrategy ==
    /\ ~stream.eof
    /\ stream.n < MaxFrames
    /\ \E ra, rb \in StreamStrategies :
          /\ << ra, rb >> # << stream.ra, stream.rb >>
          /\ stream' = [stream EXCEPT !.ra = ra, !.rb = rb]
    /\ UNCHANGED << progVars, eval, reader, pair >>

\* One frame read by both parses: the token byte, then ca bytes in the one
\* and cb bytes in the other.
frame(kind, ca, cb, lzf) ==
    /\ ~stream.eof
    /\ stream.n < MaxFrames
    /\ stream.a = stream.b
    /\ stream' = [stream EXCEPT
                     !.n = stream.n + 1,
                     !.a = stream.a + ReadBytesConsumed(1) + ca,
                     !.b = stream.b + ReadBytesConsumed(1) + cb,
                     !.eof = (kind = "EOF"),
                     !.last = [frame |-> kind, lzf |-> lzf]]
    /\ UNCHANGED << progVars, eval, reader, pair >>

\* case tokenAUX
StreamAUX ==
    \E k \in StreamKeys, v \in StreamStrings :
        LET cost(r) == LET sk == skipStage(r, {SkipMeta, SkipAll})
                       IN  readRawBytesConsumed(k, sk) + readRawBytesConsumed(v, sk)
        IN  frame("AUX", cost(stream.ra), cost(stream.rb), "lzf" \in {k.kind, v.kind})

\* case tokenResize
StreamResize ==
    \E f, g \in LengthForms :
        LET cost(r) == readLengthConsumed(f) + readLengthConsumed(g)
        IN  frame("RESIZE", cost(stream.ra), cost(stream.rb), FALSE)

\* case tokenExpMSec, tokenExpSec
StreamExpiry ==
    \E width \in {4, 8} :
        LET cost(r) == IF skipStage(r, {SkipExpiry, SkipAll})
                       THEN DiscardConsumed(width) ELSE ReadBytesConsumed(width)
        IN  frame("expiry", cost(stream.ra), cost(stream.rb), FALSE)

\* default: the key, then the value of a string or of a sorted set of one member.
StreamRecord ==
    \E k \in StreamKeys, v \in StreamStrings, d \in StreamValues :
        LET cost(r) ==
               LET sk == skipStage(r, {SkipAll})
                   sv == skipStage(r, {SkipValue, SkipAll})
               IN  readRawBytesConsumed(k, sk)
                     + IF d.enc = EncodingString THEN readRawBytesConsumed(v, sv)
                       ELSE readLengthConsumed("6bit") + readRawBytesConsumed(v, sv)
                               + readDoubleConsumed(d, sv)
        IN  frame("record", cost(stream.ra), cost(stream.rb), "lzf" \in {k.kind, v.kind})

\* case tokenEOF
StreamEOF == frame("EOF", 0, 0, FALSE)

StreamNext == StreamStrategy \/ StreamAUX \/ StreamResize \/ StreamExpiry \/ StreamRecord \/ StreamEOF

StreamSpec == Init /\ [][StreamNext]_vars

(***************************************************************************)
(* A MemReader and a BufferReader over the same file, given the same calls.*)
(***************************************************************************)
\* A read of k bytes from the BufferReader: bufio's ReadByte (k = 1) and
\* io.ReadFull. Nothing left gives io.EOF, fewer than k bytes left gives
\* io.ErrUnexpectedEOF after consuming them.
bufferRead(r, op, k) ==
    LET left == r.n - r.i
        out  == IF k <= left THEN "ok"
                ELSE IF left = 0 THEN "EOF" ELSE "ErrUnexpectedEOF"
    IN  [r EXCEPT !.i = IF out = "ok" THEN r.i + k ELSE r.n,
                  !.last = [op |-> op, arg |-> k, out |-> out, before |-> r.i]]

\* BufferReader.Discard: bufio's Discard skips the bytes there are.
bufferDiscard(r, k) ==
    [r EXCEPT !.i = IF k <= r.n - r.i THEN r.i + k ELSE r.n,
              !.last = [op |-> "Discard", arg |-> k, out |-> "ok", before |-> r.i]]

\* MemReader.Discard
memDiscard(r, k) ==
    [r EXCEPT !.i = r.i + k,
              !.last = [op |-> "Discard", arg |-> k, out |-> "ok", before |-> r.i]]

\* NewMemReader and NewBufferReader on one file.
OpenBoth ==
    /\ ~pair.mem.made
    /\ \E n \in 0..MaxData :
          pair' = [mem |-> [NoReader EXCEPT !.made = TRUE, !.n = n],
                   buf |-> [NoReader EXCEPT !.made = TRUE, !.n = n]]
    /\ UNCHANGED << progVars, eval, reader, stream >>

BothUsable ==
    pair.mem.made /\ pair.mem.last.out # "panic" /\ pair.mem.i <= MaxCursor

BothDiscard ==
    /\ BothUsable
    /\ \E k \in 0..MaxArg :
          pair' = [mem |-> memDiscard(pair.mem, k), buf |-> bufferDiscard(pair.buf, k)]
    /\ UNCHANGED << progVars, eval, reader, stream >>

BothReadByte ==
    /\ BothUsable
    /\ pair' = [mem |-> read(pair.mem, "ReadByte", 1),
                buf |-> bufferRead(pair.buf, "ReadByte", 1)]
    /\ UNCHANGED << progVars, eval, reader, stream >>

BothReadBytes ==
    /\ BothUsable
    /\ \E k \in 0..MaxArg :
          pair' = [mem |-> read(pair.mem, "ReadBytes", k),
                   buf |-> bufferRead(pair.buf, "ReadBytes", k)]
    /\ UNCHANGED << progVars, eval, reader, stream >>

\* little16: ReadBytes(2) and readBytes(2)
BothLittle16 ==
    /\ BothUsable
    /\ pair' = [mem |-> read(pair.mem, "little16", 2),
                buf |-> bufferRead(pair.buf, "little16", 2)]
    /\ UNCHANGED << progVars, eval, reader, stream >>

PairNext == OpenBoth \/ BothDiscard \/ BothReadByte \/ BothReadBytes \/ BothLittle16

PairSpec == Init /\ [][PairNext]_vars

(***************************************************************************)
(* Properties.                                                             *)
(***************************************************************************)
\* C1: once a Database, Type or Key callback has returned true, Parse returns
\* nil and no value callback is invoked any more, in ordered and in parallel
\* mode, also for records enqueued before the abort.
AbortStopsCallbacks ==
    /\ (aborted /\ pc = "done") => ret = nil
    /\ \A w \in Workers : wcb[w].cb # "none" => ~wcb[w].late

\* C2: when a worker has posted an error during the parse, Parse returns an
\* error (the claim asks for that very error; already "some error" fails).
WorkerErrorReturned ==
    (pc = "done" /\ firstErr # nil) => ret # nil

\* C3: Parse terminates on every path: the producer does not stay blocked on
\* the work channel, the channel is closed, every worker exits and Parse
\* returns.
ParseTerminates ==
    <>(/\ pc = "done"
       /\ (sync \/ async) => closed
       /\ \A w \in Workers : wpc[w] \in {"none", "exited"})

\* The producer is at the send of filterRedisType with the channel full and
\* every worker gone after an error.
BlockedSendAfterWorkersFailed ==
    /\ pc = "send"
    /\ Len(ch) = QueueCap
    /\ firstErr # nil
    /\ \A w \in Workers : wpc[w] \in {"none", "exited"}

\* C4: when Parse has returned after a valid header, every worker it started
\* has exited, the work channel is closed and no callback is running.
JoinBeforeReturn ==
    (pc = "done" /\ how # "header") =>
        /\ \A w \in Workers : wpc[w] \in {"none", "exited"} /\ wcb[w].cb = "none"
        /\ wg = 0
        /\ (sync \/ async) => closed

\* Parse has returned at EOF after a worker delivered a record and exited.
ReturnedAfterDelivery ==
    /\ pc = "done"
    /\ how = "EOF"
    /\ lastRec # 0
    /\ \E w \in Workers : wpc[w] = "exited"

WorkerCountIsCpuMinusOne ==
    (filter /\ ~sync) =>
        Cardinality({w \in Workers : wpc[w] # "none"}) =
            IF numCPU < 2 THEN 1 ELSE numCPU - 1

\* C6 (as stated): with a filter and without EnableSync, Parse starts
\* max(2, cpu_count) workers.
WorkerCountIsMaxTwoCpu ==
    (filter /\ ~sync) =>
        Cardinality({w \in Workers : wpc[w] # "none"}) =
            IF numCPU < 2 THEN 2 ELSE numCPU

\* Parallel mode on a machine with one CPU: one worker runs.
OneCpuOneWorker ==
    /\ filter
    /\ ~sync
    /\ numCPU = 1
    /\ Cardinality({w \in Workers : wpc[w] = "recv"}) = 1

\* C7: with a filter that never aborts, every value callback carries the key
\* and contents the same record is delivered with in ordered mode (the keys
\* of the records differ, so this is the equality of the two multisets).
ParallelMatchesOrdered ==
    \A w \in Workers :
        (wcb[w].cb # "none" /\ ~aborted) => wcb[w].value = wcb[w].expect

\* C8 (amended): under WithStrategy(SkipAll), with a filter whose Database
\* callback does not call Skip, no Type, Key or value callback is invoked,
\* nothing is enqueued, no worker error ends the parse, and Parse returns nil
\* unless the data ends early.
SkipAllSilentWithoutDBSkip ==
    (filter /\ defaultStrategy = SkipAll /\ skips = {NoSkip}) =>
        /\ lastcall.cb \notin {"Type", "Key"}
        /\ lastRec = 0
        /\ ch = << >>
        /\ \A w \in Workers : wcb[w].cb = "none"
        /\ pc = "done" => (how # "worker error" /\ (how # "read error" => ret = nil))

\* C8 (as stated): under WithStrategy(SkipAll) no Type, Key or value callback
\* is invoked for any record, whatever the filter does.
SkipAllSilent ==
    (filter /\ defaultStrategy = SkipAll) =>
        /\ lastcall.cb \notin {"Type", "Key"}
        /\ lastRec = 0
        /\ \A w \in Workers : wcb[w].cb = "none"
        /\ pc = "done" => (how # "worker error" /\ (how # "read error" => ret = nil))

\* A record is being skipped under WithStrategy(SkipAll) with a filter set:
\* its key was discarded and neither Type nor Key was called.
RecordSkippedUnderSkipAll ==
    /\ filter
    /\ defaultStrategy = SkipAll
    /\ skips = {NoSkip}
    /\ pc = "value"
    /\ state.skip
    /\ currentKey.Key = 0

\* C9: a strategy installed by db.Skip in the Database callback is the running
\* (and per-database) strategy at the start of every record of that database,
\* and at the next SELECT_DB frame both are the strategy of WithStrategy again.
DatabaseStrategyLifetime ==
    /\ pc = "dbcb" => strategy = setStrategy(defaultStrategy)
    /\ pc = "type" =>
          strategy = setStrategy(IF dbArg = NoSkip THEN defaultStrategy ELSE dbArg)

\* The second record of a database whose Database callback installed
\* SkipValue starts, after the Key callback of the first.
SecondRecordUnderDBStrategy ==
    /\ pc = "type"
    /\ dbArg = SkipValue
    /\ defaultStrategy # SkipValue
    /\ lastcall.cb = "Key"
    /\ lastcall.n < tokens

\* C10: whenever the driver is about to read a frame token, the transient
\* state is the default one, the small-integer size is 8 and the running
\* strategy is the per-database one.
LoopHeadState ==
    pc \in {"head", "token"} =>
        /\ state = zeroState
        /\ sizeint = 8
        /\ strategy.running = strategy.global

\* The driver is back at a frame token after a record whose value was skipped
\* by Type.Skip or Key.Skip alone: no database strategy is in force.
BackAtTokenAfterRecordSkip ==
    /\ pc = "token"
    /\ currentDB = 0
    /\ strategy.global = 0
    /\ \E i \in 1..Len(ch) : ch[i].values[1].b = 0

\* C11: when a parse with a filter has ended and no error occurred (none
\* returned, none posted by a worker), every record of a supported encoding
\* read without SkipAll got exactly one value callback, of the kind of its
\* encoding, and no other value callback was invoked; at any moment no record
\* has had two value callbacks and none was invoked for a record not due one.
ExactlyOneValueCallback ==
    LET due == {<< e[1], Encoding2Type(e[2]) >> : e \in want}
    IN  /\ \A c \in BagToSet(got) : c \in due /\ CopiesIn(c, got) = 1
        /\ (pc = "done" /\ ret = nil /\ firstErr = nil) => BagToSet(got) = due

\* A parse without error has ended after two records were delivered and a
\* third was read under SkipAll.
TwoDeliveredOneSkipped ==
    /\ pc = "done"
    /\ ret = nil
    /\ firstErr = nil
    /\ Cardinality(want) = 2
    /\ BagCardinality(got) = 2
    /\ tokens = 3
    /\ lastcall.cb = "Type"
    /\ lastcall.n = 3

\* C12: for a record that is not skipped, the Type callback has been invoked
\* when the driver is about to read the key; the Key callback has not been
\* invoked before the key is read, and has been invoked and has returned false
\* when the driver is about to read the value body; a value callback is
\* invoked only for a record whose Key callback has returned false.
PerRecordCallbackOrder ==
    /\ (pc = "key" /\ filter /\ ~state.skip) =>
          (lastcall = [cb |-> "Type", n |-> tokens] /\ currentKey.rec # tokens)
    /\ pc \in {"type", "key"} => tokens \notin keyed
    /\ (pc = "value" /\ filter /\ ~state.skip) =>
          (lastcall = [cb |-> "Key", n |-> tokens] /\ tokens \in keyed /\ rt = NoItem)
    /\ \A c \in BagToSet(got) : c[1] \in keyed
    /\ \A w \in Workers : wcb[w].cb # "none" => wcb[w].key.rec \in keyed

\* The value callback of a record is running while the driver is about to
\* read the value body of the next one, whose Key callback has returned.
ValueCallbackAfterKeyCallback ==
    /\ pc = "value"
    /\ ~state.skip
    /\ lastcall = [cb |-> "Key", n |-> tokens]
    /\ \E w \in Workers : wcb[w].cb # "none" /\ wcb[w].key.rec < tokens

\* C13: with a filter installed, every SELECT_DB frame is followed by one
\* call of the Database callback with the number read from the frame,
\* whatever the strategy in force, and the callback is invoked nowhere else.
DatabaseCallbackPerToken ==
    [][/\ (pc = "dbcb" /\ pc' # "dbcb" /\ filter) =>
             lastcall' = [cb |-> "Database", n |-> currentDB]
       /\ (lastcall'.cb = "Database" /\ lastcall' # lastcall) => pc = "dbcb"
       /\ (pc' = "dbcb" /\ pc # "dbcb") => (pc = "token" /\ tokens' = tokens + 1)]_vars

\* The Database callback was invoked under WithStrategy(SkipAll) and
\* installed SkipAll for its database.
DatabaseCallbackUnderSkipAll ==
    /\ pc = "head"
    /\ filter
    /\ defaultStrategy = SkipAll
    /\ lastcall = [cb |-> "Database", n |-> currentDB]
    /\ currentDB # 0
    /\ dbArg = SkipAll

\* C14: the contents passed to a value callback are decoded from the record's
\* own payload only: every element delivered is an element of that record, and
\* a value that was skipped is delivered empty.
OnlyOwnData ==
    \A w \in Workers :
        wcb[w].cb # "none" =>
            \A i \in 1..Len(wcb[w].value) : wcb[w].value[i] \in {0, wcb[w].key.rec}

\* C15: once the driver has read a token byte that is neither a frame token nor
\* a supported encoding, Parse returns nil whatever bytes follow (no worker
\* having failed).
UnknownEncodingEndsCleanly ==
    (pc = "done" /\ currentType \notin SupportedEncodings /\ firstErr = nil) => ret = nil

\* C16: for every input whose first nine bytes are not "REDIS" followed by four
\* decimal digits of value 1..8 (shorter inputs, non-numeric and signed
\* versions included), Parse fails with ErrInvalidRDB or ErrUnsupportedRDB.
MagicVersionGate ==
    eval.fn = "Parse" =>
        LET h  == eval.arg
            ok == /\ Len(h) = 9
                  /\ SubSeq(h, 1, 5) = << "R", "E", "D", "I", "S" >>
                  /\ \A i \in 6..9 : h[i] \in DOMAIN digit
                  /\ decimal(SubSeq(h, 6, 9)) \in 1..8
        IN  ~ok => eval.out \in {ErrInvalidRDB, ErrUnsupportedRDB}

\* C17: a strategy passed to Type.Skip or Key.Skip replaces the running
\* strategy for the remaining stages of the current record only: the
\* database's strategy stays what the database set, the record's later stages
\* run under exactly the strategy passed (its value is materialized iff that
\* strategy skips neither values nor everything), and every record starts
\* under the database's strategy again.
RecordStrategyOverwrite ==
    /\ pc \notin {"start", "done"} =>
          strategy.global = IF dbArg = NoSkip THEN defaultStrategy ELSE dbArg
    /\ pc \in {"token", "type"} => (recArg = NoSkip /\ strategy.running = strategy.global)
    /\ pc \in {"key", "value", "send", "repost"} =>
          strategy.running = IF recArg = NoSkip THEN strategy.global ELSE recArg
    /\ pc = "send" =>
          (rt.values[1].b # 0) = ~(Has(strategy.running, SkipValue) \/ Has(strategy.running, SkipAll))

KeySkipZeroUnderSkipValue ==
    /\ pc = "send"
    /\ strategy.global = SkipValue
    /\ dbArg = SkipValue
    /\ recArg = 0
    /\ lastcall = [cb |-> "Key", n |-> tokens]
    /\ rt.values[1].b = tokens
    /\ tokens = 3

\* C18: the key delivered to the Key callback carries the value of the expiry
\* frame read just before the record (unless that frame was skipped), and the
\* sentinel -1 when no expiry frame immediately precedes the record.
ExpiryOfOneRecord ==
    (pc = "value" /\ lastcall = [cb |-> "Key", n |-> tokens]) =>
        /\ (expTok.on /\ ~expTok.skipped) => currentKey.Expiry = expTok.v
        /\ ~expTok.on => currentKey.Expiry = -1

\* C19: the memory of a key delivered to the Key callback is the cost of the
\* key string plus the dictionary-entry overhead 40, plus the expiry-entry
\* overhead 32 if and only if the record had an expiry frame in the file,
\* under every strategy and for every expiry value.
KeyMemoryByExpiryFrame ==
    eval.fn = "key" =>
        eval.out.memory = keyCost(eval.arg.key, 8) + 40
                            + (IF eval.arg.frame # << >> THEN 32 ELSE 0)

\* C20: for every record delivered to a value callback, Memory() is at least
\* the sum of the byte lengths of the member strings delivered, integer-encoded
\* ziplist entries delivered as decimal strings included.
MemoryCoversMembers ==
    LET RECURSIVE SumLen(_)
        SumLen(vs) == IF vs = << >> THEN 0 ELSE vs[1] + SumLen(Tail(vs))
    IN  eval.fn = "list" => eval.out.Memory >= SumLen(eval.out.Values)

\* C21: when workers fail during a parse, the worker error Parse returns is
\* the one that was posted to the error slot first; a later worker's error
\* is never the one returned.
FirstErrorWins ==
    (pc = "done" /\ ret.kind = "ErrInvalidCompressedData") => ret = firstErr

\* C22: the producer never performs LZF decompression: reading a key or an
\* AUX string, compressed or not, it does not call readLZF.
ProducerNeverDecompresses ==
    eval.fn = "readRawString" => ~eval.out.lzf

\* C23: without a filter (with or without EnableSync) Parse starts no worker,
\* enqueues no work item and invokes no callback, and on a file that reads
\* without error and holds supported encodings only it ends at EOF with nil.
WithoutFilter ==
    (~filter /\ pc # "start") =>
        /\ wg = 0
        /\ \A w \in Workers : wpc[w] = "none" /\ wcb[w].cb = "none"
        /\ ch = << >> /\ rt = NoItem /\ pc \notin {"send", "repost"}
        /\ lastcall = NoCall /\ ~aborted /\ BagToSet(got) = {}
        /\ pc = "done" => how \in {"header", "read error", "unsupported", "EOF"}
        /\ (pc = "done" /\ how = "EOF") => ret = nil

EndOfFileWithoutFilter ==
    /\ ~filter /\ sync
    /\ pc = "done" /\ how = "EOF" /\ ret = nil
    /\ closed
    /\ tokens >= 2

\* C24: after any sequence of Discard, ReadByte and ReadBytes on a MemReader,
\* a read that asks for more bytes than remain returns the
\* unexpected-end-of-input error and leaves the cursor where it was; it never
\* panics; a successful read advances the cursor by exactly the bytes returned.
MemReaderContract ==
    LET l == reader.last
    IN  l.op \in {"ReadByte", "ReadBytes"} =>
            /\ l.out # "panic"
            /\ (l.before + l.arg > reader.n) = (l.out = "ErrUnexpectedEOF")
            /\ l.out = "ErrUnexpectedEOF" => reader.i = l.before
            /\ l.out = "ok" => reader.i = l.before + l.arg

\* C25: once a worker has posted an error, the slot is never empty at a loop
\* head; an item enqueued after the post takes the producer straight to the
\* loop head; and at a loop head with the slot taken the producer does nothing
\* but return the error in the slot. So it enqueues at most one further item
\* and finishes at most the iteration it is in.
BoundedResponse ==
    [][/\ (pc' = "head" /\ firstErr' # nil) => err' # nil
       /\ (firstErr # nil /\ Len(ch') > Len(ch)) => (pc' = "head" /\ err' # nil)
       /\ (pc = "head" /\ err # nil /\ pc' # pc) =>
             (pc' = "close" /\ ret' = err /\ how' = "worker error" /\ ch' = ch)]_vars

ErrorWaitingAtLoopHead ==
    /\ pc = "head"
    /\ err # nil
    /\ firstErr.rec = 1
    /\ tokens = 3
    /\ Len(ch) = 1 /\ ch[1].key.rec = 3

\* C26: the work queue never holds more items than its capacity; it changes
\* only by a worker taking its head or the producer appending the item it
\* built; while no worker error has been posted the producer leaves the send
\* only by appending that item, and on a full queue it stays blocked.
BoundedQueue ==
    [][/\ Len(ch') <= QueueCap
       /\ ch' # ch =>
             \/ (Len(ch) > 0 /\ ch' = Tail(ch))
             \/ /\ pc = "send" /\ Len(ch) < QueueCap
                /\ Len(ch') = Len(ch) + 1
                /\ SubSeq(ch', 1, Len(ch)) = ch
                /\ ch'[Len(ch')].key = rt.key /\ ch'[Len(ch')].values = rt.values
       /\ (pc = "send" /\ pc' # "send" /\ firstErr = nil) =>
             (Len(ch') = Len(ch) + 1 /\ ch'[Len(ch')].key = rt.key)
       /\ (pc = "send" /\ Len(ch) = QueueCap /\ err = nil) => pc' = "send"]_vars

ProducerBlockedOnFullQueue ==
    /\ pc = "send"
    /\ Len(ch) = QueueCap
    /\ firstErr = nil
    /\ rt.key.rec = tokens
    /\ \A w \in Workers : wpc[w] \in {"none", "work", "cb"}

\* C27: a record whose value was read under SkipValue (and not SkipAll) is
\* still handed to a worker and gets exactly one value callback with its key,
\* and the contents that callback receives are empty.
SkipValueKeepsCallback ==
    \A w \in Workers :
        (wcb[w].cb # "none" /\ wcb[w].skipped) =>
            /\ wcb[w].key # NoKey
            /\ CopiesIn(<< wcb[w].key.rec, wcb[w].cb >>, got) = 1
            /\ \A i \in 1..Len(wcb[w].value) : wcb[w].value[i] = 0


\* C28: two parses of the same well-formed file under any strategies have
\* consumed the same number of bytes after every AUX, RESIZE, expiry and
\* record frame, so they read the same tokens and both come to the EOF frame.
SamePosition ==
    /\ stream.a = stream.b
    /\ stream.n > 0 => stream.a > 0

SkippedAndReadCompressed ==
    /\ stream.n = MaxFrames
    /\ stream.last.frame = "record"
    /\ stream.last.lzf
    /\ stream.ra = SkipValue
    /\ stream.rb = 0
    /\ stream.a = stream.b
    /\ stream.a > 2 * PayloadLen


\* C29: given the same file and the same calls, the MemReader and the
\* BufferReader stand at the same position after every call, and every call
\* succeeds in both or fails in both with the same kind of error.
OneContract ==
    /\ pair.mem.i = pair.buf.i
    /\ pair.mem.last.out = pair.buf.last.out


\* C30: a length whose first byte is 0x80 is the next four bytes read as an
\* unsigned 32-bit integer, most significant byte first: it is never negative
\* and its bytes are the four bytes of the file.
LengthPrefix0x80 ==
    (eval.fn = "readLength" /\ eval.arg.first = 128) =>
        LET n == eval.out.n
            b == eval.arg.rest
        IN  /\ eval.out.err = nil
            /\ ~eval.out.encoded
            /\ n >= 0
            /\ n \div 16777216 = b[1]
            /\ (n \div 65536) % 256 = b[2]
            /\ (n \div 256) % 256 = b[3]
            /\ n % 256 = b[4]


\* C31: readLZF returns the decompressed bytes, no more of them than the
\* declared length, or fails with ErrInvalidCompressedData; it reads no byte
\* past the end of its input.
LZFBounds ==
    eval.fn = "readLZF" =>
        /\ eval.out.res \in {"ok", "ErrInvalidCompressedData"}
        /\ Len(eval.out.out) <= eval.arg.ulen


\* C32: readZipmap of a zipmap of k pairs returns, without error, exactly the
\* 2k strings key1, value1, ..., keyk, valuek of the frame, also for k = 0.
ZipmapDecoding ==
    eval.fn = "readZipmap" =>
        /\ eval.out.err = nil
        /\ eval.out.values = zipmapStrings(eval.arg)


\* C34: jemalloc(size) returns the smallest size class that is >= size, and
\* size itself, without failing, when size as an unsigned value exceeds the
\* largest size class.
AllocatorRounding ==
    eval.fn = "jemalloc" =>
        LET size == eval.arg
            fits == {i \in 1..Len(allocSpec) : size >= 0 /\ allocSpec[i] >= size}
        IN  /\ eval.out.res = "ok"
            /\ eval.out.self = (fits = {})
            /\ fits # {} => /\ eval.out.v \in {allocSpec[i] : i \in fits}
                            /\ \A i \in fits : eval.out.v <= allocSpec[i]


\* C33: a plain string of at most 32 bytes that is a decimal integer costs 8
\* bytes when read with memory accounting, whatever the type of the record it
\* belongs to.
SmallIntegerCost ==
    (eval.fn = "readValue" /\ eval.arg.str.len <= 32 /\ eval.arg.str.int) =>
        eval.out.memory = 8


\* C35: in ordered mode at most one filter callback runs at any moment: no
\* two value callbacks are running together, and no Database, Type or Key
\* callback is made while a value callback is running.
OrderedModeSerializesCallbacks ==
    [][sync =>
          /\ Cardinality({w \in Workers : wpc[w] = "cb"}) <= 1
          /\ (lastcall' # lastcall /\ lastcall' # NoCall) =>
                 \A w \in Workers : wpc[w] # "cb"]_vars


NoCallbackForUnsupported ==
    /\ (lastcall.cb \in {"Type", "Key"} /\ lastcall.n = tokens) =>
           currentType \in SupportedEncodings
    /\ pc = "value" => currentType \in SupportedEncodings

\* C38: when Parse has returned, the Reader, which implements Close, has
\* been closed exactly once, whatever the return path.
ReaderReleased == pc = "done" => closes = 1

====
